---- MODULE Spec2Model ----
(***************************************************************************)
(* Model of html-resource-embedder (src/cli.js): the command line tool     *)
(* that inlines scripts, stylesheets and images into the .html files of a  *)
(* directory.  Text is modelled as sequences of one-character strings so   *)
(* that prefix tests and the stylesheet regular expression are computed    *)
(* as the code computes them.                                              *)
(***************************************************************************)
EXTENDS Integers, Sequences, FiniteSets, TLC

\* ------------------------------------------------------------------------
\* Bounds
\* ------------------------------------------------------------------------
MaxSegs == 3      \* pieces a generated stylesheet text is built from
MaxNodes == 2     \* nodes of a generated document
MaxFiles == 2     \* directory entries with an html extension

\* ------------------------------------------------------------------------
\* Text helpers
\* ------------------------------------------------------------------------
Upper == <<"A","B","C","D","E","F","G","H","I","J","K","L","M",
           "N","O","P","Q","R","S","T","U","V","W","X","Y","Z">>
Lower == <<"a","b","c","d","e","f","g","h","i","j","k","l","m",
           "n","o","p","q","r","s","t","u","v","w","x","y","z">>

\* String.prototype.toLowerCase on one character
LowerChar(c) ==
    IF \E i \in 1..26 : Upper[i] = c
    THEN Lower[CHOOSE i \in 1..26 : Upper[i] = c]
    ELSE c

toLowerCase(s) == [i \in 1..Len(s) |-> LowerChar(s[i])]

\* String.prototype.startsWith
startsWith(s, p) == Len(s) >= Len(p) /\ SubSeq(s, 1, Len(p)) = p

\* s contains p as a contiguous substring
Contains(s, p) ==
    \E i \in 1..(Len(s) - Len(p) + 1) : SubSeq(s, i, i + Len(p) - 1) = p

RECURSIVE Flatten(_)
Flatten(ss) == IF ss = <<>> THEN <<>> ELSE Head(ss) \o Flatten(Tail(ss))

\* ------------------------------------------------------------------------
\* Paths and the file system the run sees
\* ------------------------------------------------------------------------
basePath == <<"s">>
baseOutputPath == <<"o">>

\* path.join of two segments (no "." or ".." segments occur in the inputs)
pathJoin(a, b) == a \o <<"/">> \o b

\* path.dirname: everything before the last separator
dirname(p) ==
    LET slashes == {i \in 1..Len(p) : p[i] = "/"}
    IN  IF slashes = {} THEN <<".">>
        ELSE SubSeq(p, 1, (CHOOSE i \in slashes : \A j \in slashes : j <= i) - 1)

\* file names used by the inputs
AJs    == <<"a",".","j","s">>
MJs    == <<"m",".","j","s">>
BCss   == <<"b",".","c","s","s">>
BadCss == <<"k",".","c","s","s">>
MCss   == <<"m",".","c","s","s">>
CPng   == <<"c",".","p","n","g">>
DPng   == <<"d",".","p","n","g">>
MPng   == <<"m",".","p","n","g">>
FWoff  == <<"f",".","w","o","f","f">>
ExtUrl == <<"h","t","t","p",":","/","/","e","/","x">>

UrlOpen == <<"u","r","l","(">>

\* content of the two stylesheets on disk
BCssText   == UrlOpen \o FWoff \o <<")">> \o <<"\n">> \o UrlOpen \o CPng \o <<")">>
BadCssText == UrlOpen \o MPng \o <<")">>
AJsText    == <<"x","=","1">>

\* The files that exist below basePath, with their content.  m.js, m.css and
\* m.png do not exist.
Disk ==
    [p \in {pathJoin(basePath, AJs), pathJoin(basePath, BCss),
            pathJoin(basePath, BadCss), pathJoin(basePath, CPng),
            pathJoin(basePath, DPng), pathJoin(basePath, FWoff)} |->
        IF p = pathJoin(basePath, AJs) THEN AJsText
        ELSE IF p = pathJoin(basePath, BCss) THEN BCssText
        ELSE IF p = pathJoin(basePath, BadCss) THEN BadCssText
        ELSE <<"#">>]

\* fs.existsSync
existsSync(p) == p \in DOMAIN Disk

\* fs.readFileSync(p, 'utf8') of an existing file
readFileSync(p) == Disk[p]

DataPrefix == <<"d","a","t","a",":">>

\* b64img.base64Sync of an existing file: "data:" followed by the mime type
\* and base64 payload, which one symbol per file stands for
base64Sync(p) ==
    DataPrefix \o << IF p = pathJoin(basePath, CPng) THEN "<image/png;base64,C>"
                     ELSE IF p = pathJoin(basePath, DPng) THEN "<image/png;base64,D>"
                     ELSE "<image/*;base64,other>" >>

\* ------------------------------------------------------------------------
\* Stylesheet url(...) rewriting (the regex of fetchAndEmbedResource)
\* ------------------------------------------------------------------------
\* the alternation of the regex, in its order
Extensions ==
    << <<"j","p","g">>, <<"g","i","f">>, <<"p","n","g">>, <<"j","p","e","g">>,
       <<"e","x","i","f">>, <<"b","m","p">>, <<"t","i","f","f">>,
       <<"p","p","m">>, <<"p","g","m">>, <<"p","b","m">>, <<"p","n","m">>,
       <<"s","v","g">> >>

IsQuote(c) == c \in {"\"", "'"}

\* what "." of a JavaScript regex matches: anything but a line terminator
DotMatches(c) == c \notin {"\n", "\r"}

CharAt(t, i) == IF i >= 1 /\ i <= Len(t) THEN t[i] ELSE "<eof>"

\* end position of  \.(?:ext)(?:"|')?\)  tried at position d with alternative
\* number e, or 0 if that alternative fails there
ExtEndAt(t, d, e) ==
    LET ext == Extensions[e]
        a   == d + 1 + Len(ext)          \* first position after the extension
    IN  IF /\ CharAt(t, d) = "."
           /\ a - 1 <= Len(t)
           /\ toLowerCase(SubSeq(t, d + 1, a - 1)) = ext
        THEN IF IsQuote(CharAt(t, a)) /\ CharAt(t, a + 1) = ")" THEN a + 1
             ELSE IF CharAt(t, a) = ")" THEN a
             ELSE 0
        ELSE 0

NoMatch == [found |-> FALSE, end |-> 0, p1 |-> <<>>]

Min(S) == CHOOSE x \in S : \A y \in S : x <= y

\* the alternatives of the extension group that succeed at position d
MatchingExts(t, d) == {e \in 1..Len(Extensions) : ExtEndAt(t, d, e) > 0}

\* the lengths k the lazy .*? started at s can take for the rest to match
LazyLengths(t, s) ==
    {k \in 0..(Len(t) - s + 1) :
        /\ \A j \in s..(s + k - 1) : DotMatches(t[j])
        /\ MatchingExts(t, s + k) # {}}

\* the match with .*? of length k and alternative e: its end and group 1
TailWith(t, s, k, e) ==
    [found |-> TRUE, end |-> ExtEndAt(t, s + k, e),
     p1 |-> SubSeq(t, s, s + k + Len(Extensions[e]))]

\* alternatives are tried in their order
TailAtLength(t, s, k) == TailWith(t, s, k, Min(MatchingExts(t, s + k)))

\* lazy: the shortest length is tried first
TailAmong(t, s, ks) == IF ks = {} THEN NoMatch ELSE TailAtLength(t, s, Min(ks))

\* the group (.*?\.(?:ext)) with what follows it, started at s
LazyTailAt(t, s) == TailAmong(t, s, LazyLengths(t, s))

\* (?:"|')? before the group: taking the quote is tried first
OrWithoutQuote(m, t, s) == IF m.found THEN m ELSE LazyTailAt(t, s)

\* one attempt of the whole regex at position i (flags g and i)
MatchAt(t, i) ==
    IF i + 3 <= Len(t) /\ toLowerCase(SubSeq(t, i, i + 3)) = UrlOpen
    THEN OrWithoutQuote(IF IsQuote(CharAt(t, i + 4)) THEN LazyTailAt(t, i + 5) ELSE NoMatch,
                        t, i + 4)
    ELSE NoMatch

\* a result of the replace: threw: base64Sync was called on a path that does
\* not exist and raised; calls: the paths base64Sync was called on, in order
Replaced(text, calls, rest) ==
    [threw |-> rest.threw, text |-> text \o rest.text, calls |-> calls \o rest.calls]

\* data.replace(regex, (match, p1) => `url(${b64img.base64Sync(p)})`) from
\* position i on
RECURSIVE ReplaceFrom(_, _, _)
RECURSIVE ReplaceWith(_, _, _, _)
RECURSIVE ReplaceMatch(_, _, _, _)

\* the callback on a match m with p = path.join(baseResourceUrl, p1)
ReplaceMatch(t, baseResourceUrl, m, p) ==
    IF ~existsSync(p) THEN [threw |-> TRUE, text |-> <<>>, calls |-> <<p>>]
    ELSE Replaced(UrlOpen \o base64Sync(p) \o <<")">>, <<p>>,
                  ReplaceFrom(t, m.end + 1, baseResourceUrl))

\* position i with the outcome m of the attempt there
ReplaceWith(t, i, baseResourceUrl, m) ==
    IF m.found THEN ReplaceMatch(t, baseResourceUrl, m, pathJoin(baseResourceUrl, m.p1))
    ELSE Replaced(<<t[i]>>, <<>>, ReplaceFrom(t, i + 1, baseResourceUrl))

ReplaceFrom(t, i, baseResourceUrl) ==
    IF i > Len(t) THEN [threw |-> FALSE, text |-> <<>>, calls |-> <<>>]
    ELSE ReplaceWith(t, i, baseResourceUrl, MatchAt(t, i))

rewriteCssUrls(data, baseResourceUrl) == ReplaceFrom(data, 1, baseResourceUrl)

\* ------------------------------------------------------------------------
\* Document nodes
\* ------------------------------------------------------------------------
\* tag.attribs: an object, or undefined (text nodes, and after "delete
\* tag.attribs")
NoAttribs == [defined |-> FALSE, map |-> <<>>]
Attribs(m) == [defined |-> TRUE, map |-> m]
EmptyMap == <<>>

TextNode(d) ==
    [type |-> "text", name |-> "", attribs |-> NoAttribs, children |-> <<>>, data |-> d]
Element(t, n, m, ch) ==
    [type |-> t, name |-> n, attribs |-> Attribs(m), children |-> ch, data |-> <<>>]

\* domutils isTag
isTag(elem) == elem.type \in {"tag", "script", "style"}

\* domutils.findAll(test, dom): positions of the elements passing the test,
\* in document order.  A document is the sequence of its nodes in document
\* order; the only children kept are the text children of an element.  The
\* test is given as its value on each node of the document.
RECURSIVE findAllFrom(_, _, _)
findAllFrom(test, dom, i) ==
    IF i > Len(dom) THEN <<>>
    ELSE (IF isTag(dom[i]) /\ test[dom[i]] THEN <<i>> ELSE <<>>)
         \o findAllFrom(test, dom, i + 1)

findAll(test, dom) == findAllFrom(test, dom, 1)

\* ------------------------------------------------------------------------
\* fetchAndEmbedResource
\* ------------------------------------------------------------------------
Range(f) == {f[i] : i \in DOMAIN f}

\* delete obj[key]
DeleteKey(m, key) == [a \in (DOMAIN m) \ {key} |-> m[a]]

\* obj[key] = value on an object that may or may not have the key
SetKey(m, key, value) ==
    [a \in (DOMAIN m) \cup {key} |-> IF a = key THEN value ELSE m[a]]

Http == <<"h","t","t","p">>

\* the test "shouldProcess" of fetchAndEmbedResource: attribs is defined and
\* every required attribute has a truthy (present, non-empty) value
shouldProcess(tag, requiredAttributes) ==
    /\ tag.attribs.defined
    /\ \A a \in Range(requiredAttributes) :
          a \in DOMAIN tag.attribs.map /\ tag.attribs.map[a] # <<>>

\* a result of fetchAndEmbedResource.  tag: the tag as the call leaves it;
\* outcome: "ok" (returned), "exit1" (assertError ended the process) or
\* "throw" (an exception left the call); warned: the "Unable to fetch" line
\* was printed; calls: the paths b64img.base64Sync was called on.
Untouched(tag) == [tag |-> tag, outcome |-> "ok", warned |-> FALSE, calls |-> <<>>]

\* isExternal = src.startsWith('http')
isExternal(src) == startsWith(src, Http)

\* variant: a missing file reported through assertError
missingResourceFatal(tag) == [Untouched(tag) EXCEPT !.outcome = "exit1"]

\* the branch for a file that does not exist: a red line, nothing else
missingResource(tag) == [Untouched(tag) EXCEPT !.warned = TRUE]

\* variant: an external src skipped whatever the flag
externalResourceSkipped(tag, external) == Untouched(tag)

\* the branch for an external src: assertError(true, ...) under the flag
externalResource(tag, external) ==
    IF external THEN [Untouched(tag) EXCEPT !.outcome = "exit1"] ELSE Untouched(tag)

\* variant: the path attribute is kept
deleteSrcKept(tag) == tag

\* delete tag.attribs.src
deleteSrc(tag) == [tag EXCEPT !.attribs.map = DeleteKey(tag.attribs.map, "src")]

\* variant: the attributes of the link are kept
deleteAttribsKept(tag) == tag

\* delete tag.attribs
deleteAttribs(tag) == [tag EXCEPT !.attribs = NoAttribs]

\* if(newTagType) tag.type = newTagType; if(newTagName) tag.name = newTagName
\* (an omitted argument is "")
retag(tag, newTagType, newTagName) ==
    [tag EXCEPT !.type = IF newTagType # "" THEN newTagType ELSE @,
                !.name = IF newTagName # "" THEN newTagName ELSE @]

\* tag.children = [{data: data, type: 'text'}]
setChildren(tag, data) == [tag EXCEPT !.children = <<TextNode(data)>>]

\* a call that returned with the tag rewritten
Embedded(tag, calls) == [tag |-> tag, outcome |-> "ok", warned |-> FALSE, calls |-> calls]

\* the stylesheet part of the text branch, css the outcome of the replace on
\* the tag without src
embedCss(noSrc, newTagType, newTagName, css) ==
    IF css.threw
    THEN [tag |-> noSrc, outcome |-> "throw", warned |-> FALSE, calls |-> css.calls]
    ELSE Embedded(setChildren(retag(deleteAttribs(noSrc), newTagType, newTagName), css.text),
                  css.calls)

\* the branch type != 'image' for an existing file
embedText(tag, type, filePath, newTagType, newTagName) ==
    IF type = "stylesheet"
    THEN embedCss(deleteSrc(tag), newTagType, newTagName,
                  rewriteCssUrls(readFileSync(filePath), dirname(filePath)))
    ELSE Embedded(setChildren(retag(deleteSrc(tag), newTagType, newTagName),
                              readFileSync(filePath)),
                  <<>>)

\* the branch type == 'image' for an existing file
embedImage(tag, filePath) ==
    Embedded([tag EXCEPT !.attribs.map = SetKey(tag.attribs.map, "src", base64Sync(filePath))],
             <<filePath>>)

\* the branch !isExternal with filePath = path.join(basePath, src)
fetchLocal(tag, type, filePath, newTagType, newTagName) ==
    IF ~existsSync(filePath) THEN missingResource(tag)
    ELSE IF type # "image" THEN embedText(tag, type, filePath, newTagType, newTagName)
    ELSE embedImage(tag, filePath)

\* the body of if(shouldProcess) with src = tag.attribs[pathAttribute]
fetchSrc(tag, type, src, newTagType, newTagName, external) ==
    IF isExternal(src) THEN externalResource(tag, external)
    ELSE fetchLocal(tag, type, pathJoin(basePath, src), newTagType, newTagName)

\* fetchAndEmbedResource(tag, requiredAttributes, type, pathAttribute,
\* newTagType, newTagName) under cli.flags.external
fetchAndEmbedResource(tag, requiredAttributes, type, pathAttribute, newTagType, newTagName, external) ==
    IF ~shouldProcess(tag, requiredAttributes) THEN Untouched(tag)
    ELSE fetchSrc(tag, type, tag.attribs.map[pathAttribute], newTagType, newTagName, external)

\* ------------------------------------------------------------------------
\* embedResources and the serialization of writeFile
\* ------------------------------------------------------------------------
\* the pass after the call on the tag at position i returned r; st is
\* [dom, outcome, warned, calls], warned the positions of the tags a warning
\* was printed for
afterTag(st, i, r) ==
    [dom     |-> [st.dom EXCEPT ![i] = r.tag],
     outcome |-> r.outcome,
     warned  |-> IF r.warned THEN st.warned \cup {i} ELSE st.warned,
     calls   |-> st.calls \o r.calls]

\* tags.forEach(tag => fetchAndEmbedResource(tag, ...)) from position k of
\* the list on.  An exit or an exception ends the loop.
RECURSIVE forEachTag(_, _, _, _, _, _, _, _, _)
forEachTag(st, tags, k, requiredAttributes, type, pathAttribute, newTagType, newTagName, external) ==
    IF st.outcome # "ok" \/ k > Len(tags) THEN st
    ELSE forEachTag(afterTag(st, tags[k],
                             fetchAndEmbedResource(st.dom[tags[k]], requiredAttributes, type,
                                                   pathAttribute, newTagType, newTagName,
                                                   external)),
                    tags, k + 1, requiredAttributes, type, pathAttribute,
                    newTagType, newTagName, external)

\* the tests handed to domutils.findAll
isScript(dom) == [elem \in Range(dom) |-> elem.type = "script"]
isLink(dom) == [elem \in Range(dom) |-> elem.name = "link"]
isImg(dom) == [elem \in Range(dom) |-> elem.name = "img"]

\* variant: img elements collected whatever the flag
imageTagsOfAlways(dom, images) == findAll(isImg(dom), dom)

\* imageTags of embedResources
imageTagsOf(dom, images) == IF images THEN findAll(isImg(dom), dom) ELSE <<>>

\* embedResources up to the call of writeFile; flags is cli.flags.  The three
\* lists are found before the first tag is rewritten.
embedResources(dom, flags) ==
    forEachTag(
        forEachTag(
            forEachTag([dom |-> dom, outcome |-> "ok", warned |-> {}, calls |-> <<>>],
                       findAll(isScript(dom), dom), 1, <<"src">>, "script", "src",
                       "", "", flags.external),
            findAll(isLink(dom), dom), 1, <<"rel", "href">>, "stylesheet", "href",
            "style", "style", flags.external),
        imageTagsOf(dom, flags.images), 1, <<"src">>, "image", "src", "", "",
        flags.external)

\* names as text
NameText(n) ==
    CASE n = "script" -> <<"s","c","r","i","p","t">>
      [] n = "link"   -> <<"l","i","n","k">>
      [] n = "img"    -> <<"i","m","g">>
      [] n = "style"  -> <<"s","t","y","l","e">>
      [] n = "div"    -> <<"d","i","v">>
      [] n = "src"    -> <<"s","r","c">>
      [] n = "href"   -> <<"h","r","e","f">>
      [] n = "rel"    -> <<"r","e","l">>
      [] n = "alt"    -> <<"a","l","t">>
      [] n = "id"     -> <<"i","d">>

\* the order the documents write their attributes in
AttrOrder == <<"rel", "href", "src", "alt", "id">>

\* elements serialized without an end tag
singleTag == {"link", "img"}

RECURSIVE formatAttrs(_, _)
formatAttrs(m, k) ==
    IF k > Len(AttrOrder) THEN <<>>
    ELSE (IF AttrOrder[k] \in DOMAIN m
          THEN <<" ">> \o NameText(AttrOrder[k]) \o <<"=", "\"">> \o m[AttrOrder[k]] \o <<"\"">>
          ELSE <<>>)
         \o formatAttrs(m, k + 1)

\* domutils.getOuterHTML of a node whose children are text nodes
getOuterHTML(elem) ==
    IF elem.type = "text" THEN elem.data
    ELSE <<"<">> \o NameText(elem.name)
         \o (IF elem.attribs.defined THEN formatAttrs(elem.attribs.map, 1) ELSE <<>>)
         \o <<">">>
         \o Flatten([c \in 1..Len(elem.children) |-> elem.children[c].data])
         \o (IF elem.name \in singleTag THEN <<>>
             ELSE <<"<", "/">> \o NameText(elem.name) \o <<">">>)

\* domStr of writeFile
domStrOf(dom) == Flatten([i \in 1..Len(dom) |-> getOuterHTML(dom[i])])

\* ------------------------------------------------------------------------
\* Inputs
\* ------------------------------------------------------------------------
\* all sequences over S of length at most n
RECURSIVE SeqsUpTo(_, _)
SeqsUpTo(S, n) ==
    IF n = 0 THEN {<<>>}
    ELSE LET shorter == SeqsUpTo(S, n - 1)
         IN  shorter \cup {Append(q, x) : q \in shorter, x \in S}

UrlRef(path) == UrlOpen \o path \o <<")">>
QuotedUrlRef(path) == UrlOpen \o <<"'">> \o path \o <<"'", ")">>
DataRef == UrlOpen \o DataPrefix \o <<"<image/gif;base64,Z>">> \o <<")">>

\* the pieces stylesheet texts are built from
ImageRefs    == {UrlRef(CPng), QuotedUrlRef(DPng)}
MissingRefs  == {UrlRef(MPng)}
OtherRefs    == {UrlRef(FWoff), DataRef}
Separators   == {<<" ">>, <<"\n">>}
CssSegments  == ImageRefs \cup MissingRefs \cup OtherRefs \cup Separators

RelCss == <<"c","s","s">>
IdT    == <<"t">>
AltI   == <<"i">>

ScriptNode(m, ch) == Element("script", "script", m, ch)
LinkNode(m) == Element("tag", "link", m, <<>>)
ImgNode(m) == Element("tag", "img", m, <<>>)
DivNode == Element("tag", "div", EmptyMap, <<TextNode(<<"y">>)>>)

ScriptChoices ==
    {ScriptNode("id" :> IdT, <<TextNode(<<"z">>)>>)}
    \cup {ScriptNode(("src" :> v) @@ ("id" :> IdT), <<>>) : v \in {<<>>, AJs, MJs, ExtUrl}}
    \cup {ScriptNode("src" :> AJs, <<TextNode(<<"z">>)>>)}

LinkChoices ==
    {LinkNode(EmptyMap), LinkNode("rel" :> RelCss), LinkNode("href" :> BCss),
     LinkNode(("rel" :> <<>>) @@ ("href" :> BCss)),
     LinkNode(("rel" :> RelCss) @@ ("href" :> <<>>))}
    \cup {LinkNode(("rel" :> RelCss) @@ ("href" :> v) @@ ("id" :> IdT)) :
             v \in {BCss, BadCss, MCss, ExtUrl}}

ImgChoices ==
    {ImgNode("alt" :> AltI)}
    \cup {ImgNode(("src" :> v) @@ ("alt" :> AltI)) : v \in {<<>>, DPng, MPng, ExtUrl}}

NodeChoices ==
    ScriptChoices \cup LinkChoices \cup ImgChoices \cup {DivNode, TextNode(<<"w">>)}

\* documents of the files of a run
PlainDoc    == <<DivNode, TextNode(<<"w">>)>>
ExternalDoc == <<ScriptNode(("src" :> MJs) @@ ("id" :> IdT), <<>>),
                 ScriptNode(("src" :> ExtUrl) @@ ("id" :> IdT), <<>>),
                 ImgNode(("src" :> DPng) @@ ("alt" :> AltI))>>
ExternalLinkDoc == <<LinkNode(("rel" :> RelCss) @@ ("href" :> ExtUrl) @@ ("id" :> IdT))>>
ExternalImgDoc  == <<ImgNode(("src" :> ExtUrl) @@ ("alt" :> AltI))>>
BadCssDoc   == <<LinkNode(("rel" :> RelCss) @@ ("href" :> BadCss) @@ ("id" :> IdT))>>
ProcDocs    == {PlainDoc, ExternalDoc, ExternalLinkDoc, ExternalImgDoc, BadCssDoc}

Digits == <<"1","2","3","4","5","6","7","8","9">>
ExtLower == <<"h","t","m","l">>
ExtUpper == <<"H","T","M","L">>

\* the i-th candidate entry of the source directory: f1.html, f2.HTML, ...
FileName(i) == <<"f", Digits[i], ".">> \o (IF i % 2 = 1 THEN ExtLower ELSE ExtUpper)
NotesTxt == <<"n",".","t","x","t">>
FileNames == {FileName(i) : i \in 1..MaxFiles} \cup {NotesTxt}

\* file.split('.').pop()
lastSegment(file) ==
    LET dots == {i \in 1..Len(file) : file[i] = "."}
    IN  IF dots = {} THEN file
        ELSE SubSeq(file, (CHOOSE i \in dots : \A j \in dots : j <= i) + 1, Len(file))

\* the test of the filter loop of the fs.readdir callback
isHtmlFile(file) == toLowerCase(lastSegment(file)) = ExtLower

\* a set of names as the listing fs.readdir returns (sorted)
RECURSIVE listing(_)
listing(S) ==
    IF S = {} THEN <<>>
    ELSE LET key(n) == IF n = NotesTxt THEN 0
                       ELSE CHOOSE i \in 1..MaxFiles : FileName(i) = n
             first == CHOOSE n \in S : \A o \in S : key(n) <= key(o)
         IN  <<first>> \o listing(S \ {first})

\* variant: every entry of the listing taken
htmlFilesOfUnfiltered(data) == data

\* htmlFiles of the fs.readdir callback
htmlFilesOf(data) == SelectSeq(data, isHtmlFile)

\* if(cli.flags.all) { minify = images = external = true }
applyAll(f) ==
    IF f.all THEN [f EXCEPT !.images = TRUE, !.external = TRUE] ELSE f

\* ------------------------------------------------------------------------
\* State
\* ------------------------------------------------------------------------
VARIABLES
    mode,        \* which part of the program the behaviour exercises
    cssSegs,     \* stylesheet rewriting: the pieces of the input text
    cssRes,      \* stylesheet rewriting: the result
    edom,        \* embedding pass: the parsed document
    eflags,      \* embedding pass: cli.flags
    eres,        \* embedding pass: the result
    flags,       \* cli.flags
    pc,          \* position of the main script
    entries,     \* names in the source directory
    fileDoc,     \* parsed content of each file
    staticSetSpinnerTitle, \* whether the Spinner constructor (not the instance
                           \* "spinner") has a function setSpinnerTitle; cli-spinner
                           \* defines it on Spinner.prototype only, i.e. FALSE
    outDirExists,          \* fs.existsSync(baseOutputPath), now
    mkdir,       \* state of the fs.mkdir request
    htmlFiles,
    numberOfFilesToProcess,
    numberOfFilesProcessed,
    fstate,      \* per file: "none", "reading", "writing", "written"
    pending,     \* per file: domStr handed to fs.writeFile
    output,      \* per file: content of the output file, <<"-">> if none
    spinning,    \* the spinner runs
    doneSignals, \* times 'Done :)' was printed
    notices,     \* times 'Did not find any .html files' was printed
    warnings,    \* 'Unable to fetch' lines printed
    exitCode,    \* -1 while the process runs
    exitReason

vars == <<mode, cssSegs, cssRes, edom, eflags, eres, flags, pc, entries, fileDoc,
          staticSetSpinnerTitle, outDirExists, mkdir, htmlFiles,
          numberOfFilesToProcess, numberOfFilesProcessed, fstate, pending,
          output, spinning, doneSignals, notices, warnings, exitCode, exitReason>>

cssVars == <<cssSegs, cssRes>>
embedVars == <<edom, eflags, eres>>
procVars == <<flags, pc, entries, fileDoc, staticSetSpinnerTitle, outDirExists,
              mkdir, htmlFiles, numberOfFilesToProcess, numberOfFilesProcessed,
              fstate, pending, output, spinning, doneSignals, notices, warnings,
              exitCode, exitReason>>

NoOutput == <<"-">>
NoCssRes == [ran |-> FALSE, threw |-> FALSE, text |-> <<>>, calls |-> <<>>]
NoEmbedRes == [ran |-> FALSE, dom |-> <<>>, outcome |-> "ok", warned |-> {},
               calls |-> <<>>, domStr |-> <<>>]

CssIdle == cssSegs = <<>> /\ cssRes = NoCssRes
EmbedIdle ==
    edom = <<>> /\ eflags = [images |-> FALSE, external |-> FALSE] /\ eres = NoEmbedRes
ProcIdle ==
    /\ flags = [images |-> FALSE, external |-> FALSE, all |-> FALSE]
    /\ pc = "off" /\ entries = {} /\ fileDoc = <<>>
    /\ staticSetSpinnerTitle = FALSE /\ outDirExists = TRUE /\ mkdir = "none"
    /\ htmlFiles = <<>> /\ numberOfFilesToProcess = 0 /\ numberOfFilesProcessed = 0
    /\ fstate = <<>> /\ pending = <<>> /\ output = <<>>
    /\ spinning = FALSE /\ doneSignals = 0 /\ notices = 0 /\ warnings = 0
    /\ exitCode = -1 /\ exitReason = "none"

\* ------------------------------------------------------------------------
\* Stylesheet rewriting applied to generated texts
\* ------------------------------------------------------------------------
InitCss ==
    /\ mode = "css"
    /\ cssSegs \in SeqsUpTo(CssSegments, MaxSegs)
    /\ cssRes = NoCssRes
    /\ EmbedIdle /\ ProcIdle

RewriteCss ==
    /\ mode = "css" /\ ~cssRes.ran
    /\ \E r \in {rewriteCssUrls(Flatten(cssSegs), basePath)} :
           cssRes' = [ran |-> TRUE, threw |-> r.threw, text |-> r.text,
                      calls |-> r.calls]
    /\ UNCHANGED <<mode, cssSegs, embedVars, procVars>>

NextCss == RewriteCss
SpecCss == InitCss /\ [][NextCss]_vars

\* ------------------------------------------------------------------------
\* The embedding pass applied to generated documents
\* ------------------------------------------------------------------------
InitEmbed ==
    /\ mode = "embed"
    /\ edom \in SeqsUpTo(NodeChoices, MaxNodes)
    /\ eflags \in [images : BOOLEAN, external : BOOLEAN]
    /\ eres = NoEmbedRes
    /\ CssIdle /\ ProcIdle

EmbedDoc ==
    /\ mode = "embed" /\ ~eres.ran
    /\ \E r \in {embedResources(edom, eflags)} :
           eres' = [ran |-> TRUE, dom |-> r.dom, outcome |-> r.outcome,
                    warned |-> r.warned, calls |-> r.calls,
                    domStr |-> IF r.outcome = "ok" THEN domStrOf(r.dom) ELSE <<>>]
    /\ UNCHANGED <<mode, edom, eflags, cssVars, procVars>>

NextEmbed == EmbedDoc
SpecEmbed == InitEmbed /\ [][NextEmbed]_vars

\* ------------------------------------------------------------------------
\* The run of the program
\* ------------------------------------------------------------------------
Init ==
    /\ mode = "run"
    /\ CssIdle /\ EmbedIdle
    /\ flags \in [images : BOOLEAN, external : BOOLEAN, all : {FALSE}]
                 \cup {[images |-> FALSE, external |-> FALSE, all |-> TRUE]}
    /\ pc = "start"
    /\ entries \in SUBSET FileNames
    /\ fileDoc \in [FileNames -> ProcDocs]
    /\ \A n \in FileNames : (n \notin entries \/ ~isHtmlFile(n)) => fileDoc[n] = PlainDoc
    /\ staticSetSpinnerTitle \in BOOLEAN
    /\ outDirExists \in BOOLEAN
    /\ mkdir = "none"
    /\ htmlFiles = <<>>
    /\ numberOfFilesToProcess = 0
    /\ numberOfFilesProcessed = 0
    /\ fstate = [n \in FileNames |-> "none"]
    /\ pending = [n \in FileNames |-> NoOutput]
    /\ output = [n \in FileNames |-> NoOutput]
    /\ spinning = TRUE
    /\ doneSignals = 0 /\ notices = 0 /\ warnings = 0
    /\ exitCode = -1 /\ exitReason = "none"

Running == mode = "run" /\ exitCode = -1

\* process.exit(1) of assertError, or the exit after an uncaught exception
exit1(reason) == exitCode' = 1 /\ exitReason' = reason

\* the top level of the script: the --all shorthand, then fs.readdir is issued
Main ==
    /\ Running /\ pc = "start"
    /\ flags' = applyAll(flags)
    /\ pc' = "readdir"
    /\ UNCHANGED <<mode, cssVars, embedVars, entries, fileDoc, staticSetSpinnerTitle,
                   outDirExists, mkdir, htmlFiles, numberOfFilesToProcess,
                   numberOfFilesProcessed, fstate, pending, output, spinning,
                   doneSignals, notices, warnings, exitCode, exitReason>>

\* the callback of fs.readdir; err: the source directory cannot be listed
ReaddirCallback ==
    /\ Running /\ pc = "readdir"
    /\ \E err \in BOOLEAN :
         IF err
         THEN /\ exit1("readdir")
              /\ UNCHANGED <<pc, mkdir, htmlFiles, numberOfFilesToProcess, fstate,
                             spinning, notices>>
         ELSE LET files == htmlFilesOf(listing(entries))
              IN  /\ pc' = "listed"
                  /\ mkdir' = IF ~outDirExists THEN "pending" ELSE mkdir
                  /\ htmlFiles' = files
                  /\ numberOfFilesToProcess' = Len(files)
                  /\ IF Len(files) > 0
                     THEN /\ fstate' = [n \in FileNames |->
                                          IF n \in Range(files) THEN "reading" ELSE fstate[n]]
                          /\ UNCHANGED <<spinning, notices>>
                     ELSE /\ spinning' = FALSE
                          /\ notices' = notices + 1
                          /\ UNCHANGED fstate
                  /\ UNCHANGED <<exitCode, exitReason>>
    /\ UNCHANGED <<mode, cssVars, embedVars, flags, entries, fileDoc,
                   staticSetSpinnerTitle, outDirExists, numberOfFilesProcessed,
                   pending, output, doneSignals, warnings>>

\* the callback of fs.mkdir; ok: the directory was created
MkdirCallback ==
    /\ Running /\ mkdir = "pending"
    /\ \E ok \in BOOLEAN :
         IF ok
         THEN /\ outDirExists' = TRUE
              /\ mkdir' = "done"
              /\ UNCHANGED <<exitCode, exitReason>>
         ELSE /\ exit1("mkdir")
              /\ UNCHANGED <<outDirExists, mkdir>>
    /\ UNCHANGED <<mode, cssVars, embedVars, flags, pc, entries, fileDoc,
                   staticSetSpinnerTitle, htmlFiles, numberOfFilesToProcess,
                   numberOfFilesProcessed, fstate, pending, output, spinning,
                   doneSignals, notices, warnings>>

\* the callback of fs.readFile for one file: parse, embedResources, and the
\* synchronous part of writeFile; err: the file cannot be read
ReadFileCallback(f) ==
    /\ Running /\ fstate[f] = "reading"
    /\ \E err \in BOOLEAN :
         IF err
         THEN /\ exit1("read")
              /\ UNCHANGED <<fstate, pending, warnings>>
         ELSE \E r \in {embedResources(fileDoc[f], flags)} :
                  /\ warnings' = warnings + Cardinality(r.warned)
                  /\ IF r.outcome = "ok"
                     THEN /\ fstate' = [fstate EXCEPT ![f] = "writing"]
                          /\ pending' = [pending EXCEPT ![f] = domStrOf(r.dom)]
                          /\ UNCHANGED <<exitCode, exitReason>>
                     ELSE /\ exit1(IF r.outcome = "exit1" THEN "external" ELSE "exception")
                          /\ UNCHANGED <<fstate, pending>>
    /\ UNCHANGED <<mode, cssVars, embedVars, flags, pc, entries, fileDoc,
                   staticSetSpinnerTitle, outDirExists, mkdir, htmlFiles,
                   numberOfFilesToProcess, numberOfFilesProcessed, output, spinning,
                   doneSignals, notices>>

\* the write of fs.writeFile for one file and its callback.  The write fails
\* when the output directory does not exist at that time, or for another
\* reason (ioError).
WriteFileCallback(f) ==
    /\ Running /\ fstate[f] = "writing"
    /\ \E ioError \in BOOLEAN :
         IF ioError \/ ~outDirExists
         THEN /\ exit1("write")
              /\ UNCHANGED <<fstate, output, numberOfFilesProcessed, spinning, doneSignals>>
         ELSE /\ fstate' = [fstate EXCEPT ![f] = "written"]
              /\ output' = [output EXCEPT ![f] = pending[f]]
              /\ numberOfFilesProcessed' = numberOfFilesProcessed + 1
              /\ IF numberOfFilesProcessed + 1 = numberOfFilesToProcess
                 THEN /\ doneSignals' = doneSignals + 1
                      /\ spinning' = FALSE
                      /\ UNCHANGED <<exitCode, exitReason>>
                 ELSE \* Spinner.setSpinnerTitle(...) is called on the constructor
                      \* of line 10, not on the instance of line 79: a TypeError
                      \* unless the constructor has such a function
                      /\ IF staticSetSpinnerTitle
                         THEN UNCHANGED <<exitCode, exitReason>>
                         ELSE exit1("typeerror")
                      /\ UNCHANGED <<spinning, doneSignals>>
    /\ UNCHANGED <<mode, cssVars, embedVars, flags, pc, entries, fileDoc,
                   staticSetSpinnerTitle, outDirExists, mkdir, htmlFiles,
                   numberOfFilesToProcess, pending, notices, warnings>>

\* nothing is queued any more and the spinner is stopped: the process ends
ProcessEnd ==
    /\ Running /\ pc = "listed"
    /\ ~spinning /\ mkdir # "pending"
    /\ \A n \in FileNames : fstate[n] \notin {"reading", "writing"}
    /\ exitCode' = 0
    /\ exitReason' = "end"
    /\ UNCHANGED <<mode, cssVars, embedVars, flags, pc, entries, fileDoc,
                   staticSetSpinnerTitle, outDirExists, mkdir, htmlFiles,
                   numberOfFilesToProcess, numberOfFilesProcessed, fstate, pending,
                   output, spinning, doneSignals, notices, warnings>>

Next ==
    \/ Main
    \/ ReaddirCallback
    \/ MkdirCallback
    \/ \E f \in FileNames : ReadFileCallback(f)
    \/ \E f \in FileNames : WriteFileCallback(f)
    \/ ProcessEnd

Spec == Init /\ [][Next]_vars

\* ------------------------------------------------------------------------
\* Vocabulary of the properties
\* ------------------------------------------------------------------------
HasValue(node, a) ==
    node.attribs.defined /\ a \in DOMAIN node.attribs.map /\ node.attribs.map[a] # <<>>

\* the eligibility table: the kind a node is embeddable as, or "none"
KindOf(node, images) ==
    IF node.type = "script" /\ HasValue(node, "src") THEN "script"
    ELSE IF node.name = "link" /\ HasValue(node, "rel") /\ HasValue(node, "href")
         THEN "stylesheet"
    ELSE IF node.name = "img" /\ images /\ HasValue(node, "src") THEN "image"
    ELSE "none"

PathOf(node, images) ==
    IF KindOf(node, images) = "stylesheet" THEN node.attribs.map["href"]
    ELSE node.attribs.map["src"]

IsExternalTag(node, images) ==
    KindOf(node, images) # "none" /\ SubSeq(PathOf(node, images), 1, 4) = Http

IsLocalTag(node, images) ==
    KindOf(node, images) # "none" /\ ~IsExternalTag(node, images)

OnDisk(path) == pathJoin(basePath, path) \in DOMAIN Disk

IsMissingTag(node, images) ==
    IsLocalTag(node, images) /\ ~OnDisk(PathOf(node, images))

IsPresentTag(node, images) ==
    IsLocalTag(node, images) /\ OnDisk(PathOf(node, images))

\* a stylesheet on disk whose text makes the rewriting raise
RaisingCss == {BadCss}

\* a tag that ends the process: an external one under the flag, or a link to
\* a stylesheet whose rewriting raises
IsFatalTag(node, fl) ==
    \/ IsExternalTag(node, fl.images) /\ fl.external
    \/ /\ IsPresentTag(node, fl.images)
       /\ KindOf(node, fl.images) = "stylesheet"
       /\ PathOf(node, fl.images) \in RaisingCss

Nodes(dom) == 1..Len(dom)

Effective == applyAll(flags)

HasExternalTag(f) ==
    \E i \in Nodes(fileDoc[f]) : IsExternalTag(fileDoc[f][i], Effective.images)

Issued(f) == fstate[f] \in {"writing", "written"}

InlinedScript(node) ==
    [node EXCEPT
        !.attribs.map = [a \in (DOMAIN node.attribs.map) \ {"src"} |-> node.attribs.map[a]],
        !.children = <<TextNode(Disk[pathJoin(basePath, node.attribs.map["src"])])>>]

\* C4: after a pass that returned, every script element with a local src of
\* an existing file has no src, one text child with the file's text, and its
\* type, name and other attributes as parsed; the serialization holds that
\* inline script, and the tag's text no longer holds the path.
C4_ScriptInlined ==
    (mode = "embed" /\ eres.ran /\ eres.outcome = "ok") =>
        \A i \in Nodes(edom) :
            (KindOf(edom[i], eflags.images) = "script" /\ IsPresentTag(edom[i], eflags.images))
            => /\ eres.dom[i] = InlinedScript(edom[i])
               /\ "src" \notin DOMAIN eres.dom[i].attribs.map
               /\ Contains(eres.domStr, getOuterHTML(InlinedScript(edom[i])))
               /\ ~Contains(getOuterHTML(eres.dom[i]), edom[i].attribs.map["src"])

\* witness of C4: a script with another attribute and an old child was inlined
C4_Witness ==
    /\ mode = "embed" /\ eres.ran /\ eres.outcome = "ok"
    /\ \E i \in Nodes(edom) :
          /\ KindOf(edom[i], eflags.images) = "script"
          /\ IsPresentTag(edom[i], eflags.images)
          /\ "id" \in DOMAIN eres.dom[i].attribs.map
          /\ eres.dom[i].children # edom[i].children

\* the text b.css must be rewritten to
BCssRewritten ==
    UrlOpen \o FWoff \o <<")", "\n">> \o UrlOpen \o DataPrefix
    \o <<"<image/png;base64,C>", ")">>

\* C5: after a pass that returned, every link with non-empty rel and href
\* whose local href exists is a style element without attributes whose only
\* child is the rewritten stylesheet text; a link without a value for rel
\* or href is as parsed.
C5_LinkBecomesStyle ==
    (mode = "embed" /\ eres.ran /\ eres.outcome = "ok") =>
        \A i \in Nodes(edom) :
            edom[i].name = "link" =>
                IF KindOf(edom[i], eflags.images) = "stylesheet"
                THEN IsPresentTag(edom[i], eflags.images) =>
                       /\ eres.dom[i].type = "style" /\ eres.dom[i].name = "style"
                       /\ ~eres.dom[i].attribs.defined
                       /\ PathOf(edom[i], eflags.images) = BCss
                       /\ eres.dom[i].children = <<TextNode(BCssRewritten)>>
                       /\ Contains(eres.domStr,
                             <<"<","s","t","y","l","e",">">> \o BCssRewritten
                             \o <<"<","/","s","t","y","l","e",">">>)
                ELSE eres.dom[i] = edom[i]

\* witness of C5: a link with three attributes became a style element
C5_Witness ==
    /\ mode = "embed" /\ eres.ran /\ eres.outcome = "ok"
    /\ \E i \in Nodes(edom) :
          /\ edom[i].name = "link" /\ "id" \in DOMAIN edom[i].attribs.map
          /\ IsPresentTag(edom[i], eflags.images)
          /\ eres.dom[i].name = "style"

\* C6: with the images flag, after a pass that returned every img with a
\* local src of an existing file has that file's data URI as src and is
\* otherwise as parsed; without the flag every img is as parsed, however
\* the pass ended.
C6_ImagesGated ==
    (mode = "embed" /\ eres.ran) =>
        \A i \in Nodes(edom) :
            edom[i].name = "img" =>
                IF eflags.images
                THEN (eres.outcome = "ok" /\ IsPresentTag(edom[i], TRUE)) =>
                       /\ eres.dom[i] =
                             [edom[i] EXCEPT !.attribs.map["src"] =
                                DataPrefix \o <<"<image/png;base64,D>">>]
                       /\ eres.dom[i].attribs.map["alt"] = edom[i].attribs.map["alt"]
                ELSE eres.dom[i] = edom[i]

\* witness of C6: under the flag an img got a data URI
C6_Witness ==
    /\ mode = "embed" /\ eres.ran /\ eres.outcome = "ok" /\ eflags.images
    /\ \E i \in Nodes(edom) :
          /\ edom[i].name = "img" /\ IsPresentTag(edom[i], TRUE)
          /\ SubSeq(eres.dom[i].attribs.map["src"], 1, 5) = DataPrefix
          /\ edom[i].attribs.map["src"] = DPng

\* the errors the program reports itself, and an exception of the pass
ReportedErrors == {"readdir", "mkdir", "read", "write", "external", "exception"}

Written == {f \in FileNames : fstate[f] = "written"}

\* C1: with N >= 1 html files 'Done' is printed at most once and only when
\* all N writes have finished, and a run that ends without a reported error
\* has written N files and printed 'Done' once.
C1_CompletionOnce ==
    (mode = "run" /\ numberOfFilesToProcess >= 1) =>
        /\ doneSignals <= 1
        /\ doneSignals = 1 =>
              /\ numberOfFilesProcessed = numberOfFilesToProcess
              /\ Written = Range(htmlFiles)
        /\ numberOfFilesProcessed < numberOfFilesToProcess => doneSignals = 0
        /\ (exitCode # -1 /\ exitReason \notin ReportedErrors) =>
              /\ Cardinality(Written) = numberOfFilesToProcess
              /\ doneSignals = 1

NoHtmlEntry == \A n \in entries : SubSeq(n, Len(n) - 3, Len(n)) \notin {ExtLower, ExtUpper}

NothingStarted ==
    /\ \A n \in FileNames :
          fstate[n] = "none" /\ pending[n] = NoOutput /\ output[n] = NoOutput
    /\ doneSignals = 0 /\ numberOfFilesProcessed = 0

\* C7 as claimed: with no html entry the listing prints the notice, starts
\* nothing, and the process exits with code 0.
C7_ZeroFilesExitZero ==
    (mode = "run" /\ pc = "listed" /\ NoHtmlEntry) =>
        /\ notices = 1 /\ ~spinning /\ NothingStarted
        /\ exitCode \in {-1, 0}

\* C7 as amended: with no html entry the listing prints the notice and starts
\* nothing; the process exits with code 0, or with code 1 when the output
\* directory was missing and its creation failed.
C7_ZeroFiles ==
    (mode = "run" /\ pc = "listed" /\ NoHtmlEntry) =>
        /\ notices = 1 /\ ~spinning /\ NothingStarted
        /\ exitCode \in {-1, 0, 1}
        /\ exitCode = 1 => (exitReason = "mkdir" /\ mkdir = "pending" /\ ~outDirExists)
        /\ exitCode = 0 => (exitReason = "end" /\ mkdir # "pending")

\* witness of C7: a directory with an entry that is no html file was listed
\* and the process ended with code 0 after creating the output directory
C7_Witness ==
    /\ mode = "run" /\ pc = "listed" /\ NoHtmlEntry /\ entries # {}
    /\ notices = 1 /\ exitCode = 0 /\ mkdir = "done"

\* C10: a write is handed to fs.writeFile only when the output directory
\* exists, so no write fails for a directory still being created.
C10_MkdirBeforeWrite ==
    mode = "run" =>
        \A f \in FileNames : fstate[f] = "writing" => outDirExists

\* the text a stylesheet built from pieces must be rewritten to: every image
\* reference replaced by its data URI, every other piece as it was
RewrittenPiece(seg) ==
    IF seg = UrlRef(CPng) THEN UrlOpen \o DataPrefix \o <<"<image/png;base64,C>", ")">>
    ELSE IF seg = QuotedUrlRef(DPng)
         THEN UrlOpen \o DataPrefix \o <<"<image/png;base64,D>", ")">>
    ELSE seg

\* C8: in a stylesheet all of whose image references exist, the rewriting
\* returns the text with only the image references replaced; every other
\* url(...) reference is in the result as it was, also on a line that has
\* an image reference after it.
C8_OtherRefsUntouched ==
    (mode = "css" /\ cssRes.ran /\ \A k \in 1..Len(cssSegs) : cssSegs[k] \notin MissingRefs) =>
        /\ ~cssRes.threw
        /\ cssRes.text = Flatten([k \in 1..Len(cssSegs) |-> RewrittenPiece(cssSegs[k])])

\* C9: the image encoder is only called on paths that exist, and no pass
\* ends by an exception of the encoder.
C9_EncoderGuarded ==
    (mode = "embed" /\ eres.ran) =>
        /\ \A k \in 1..Len(eres.calls) : eres.calls[k] \in DOMAIN Disk
        /\ eres.outcome # "throw"

====
